---- MODULE Spec2Model ----
(***************************************************************************)
(* prefect-fivetran: the tasks and flows of prefect_fivetran/connectors.py *)
(* driving one remote Fivetran connector through its REST API.             *)
(*                                                                         *)
(* One invocation of a task or of the flow runs against the remote         *)
(* connector.  Every network round trip is one action; the local code      *)
(* that follows a response (comparisons, raise, return) is part of the     *)
(* action that receives it.  The remote connector changes on its own       *)
(* between round trips (syncs finish, time passes).                        *)
(***************************************************************************)
EXTENDS Integers, Sequences, FiniteSets, TLC

(* ---------------------------- bounds ----------------------------------- *)

\* Largest instant of the clock: the syncs that end while an invocation runs
\* end at the instants 1..MaxTime.
MaxTime == 1

\* Largest number of fetches in one attempt of the wait task.
MaxPolls == 2

\* Largest number of requests of one invocation that the API fails.
MaxFaults == 1

(* ------------------------ program constants ---------------------------- *)

\* pendulum.from_timestamp(-1): the "never" instant of parse_timestamp.
SentinelEpoch == -1

\* retries= of the task decorators.
VerifyRetries == 0
ScheduleRetries == 0
StartRetries == 3
WaitRetries == 3

\* retries= of the @flow decorator of verify_and_start_fivetran_connector_sync.
VerifyAndStartRetries == 3

\* retry_delay_seconds= of the decorators that retry.
RetryDelaySeconds == 10

\* Defaults of poll_status_every_n_seconds: the wait task, the flow.
DefaultPollSeconds == 15
FlowPollSeconds == 30

\* poll_status_every_n_seconds= that fivetran_sync_flow passes to its wait
\* task.
SyncFlowPollSeconds == 10

(* ----------------------------- timestamps ------------------------------ *)

\* A timestamp as the API or str(pendulum.now()) writes it: a wall-clock
\* reading with its UTC offset, or JSON null.
Null == [isnull |-> TRUE, wall |-> 0, off |-> 0]

TimeString(w, o) == [isnull |-> FALSE, wall |-> w, off |-> o]

\* The remote writes its timestamps in UTC ("...Z").
RemoteTime(t) == TimeString(t, 0)

\* UTC offsets of the host running the tasks.
HostOffsets == {0, 1}

\* FivetranClient.parse_timestamp: the parsed DateTime (an instant and the
\* offset it was written with), or the sentinel for null.
parse_timestamp(api_time) ==
    IF ~api_time.isnull
    THEN [inst |-> api_time.wall - api_time.off, off |-> api_time.off]
    ELSE [inst |-> SentinelEpoch, off |-> 0]

\* DateTime.__gt__: instants are compared, not wall-clock readings.
After(a, b) == a.inst > b.inst

\* DateTime.to_iso8601_string.
to_iso8601_string(dt) == TimeString(dt.inst + dt.off, dt.off)

\* str(pendulum.now()) on a host whose offset is o, at instant t.
NowString(t, o) == TimeString(t + o, o)

(* ------------------------------- state --------------------------------- *)

VARIABLES
    now,            \* the clock (an instant)
    remote,         \* the connector as the remote API holds it
    sent,           \* the requests that reached the API, in order
    faults,         \* how many of them the API failed
    entry,          \* what was invoked: a task on its own, or the flow
    connector_id,   \* argument
    schedule_type,  \* argument
    previous_completed_at, \* argument of the wait task
    last_sync,      \* what the start task returned
    poll_seconds,   \* argument poll_status_every_n_seconds
    pc,             \* position of the invocation
    step,           \* the task that is running
    attempt,        \* number of retries of the running task so far
    details,        \* connector_details / current_details of the last fetch
    polled,         \* the responses fetched by this attempt of the wait task
    slept,          \* sleeps of this attempt of the wait task
    error,          \* what the running task raised
    url,            \* the dashboard URL in the message of the error
    result,         \* what the invocation returned
    budget,         \* how many requests the API may fail in this run
    flow_attempt,   \* number of retries of the flow so far
    delays,         \* the delays before the retries of this invocation
    other           \* a second invocation of the schedule task on the connector

vars == <<now, remote, sent, faults, entry, connector_id, schedule_type,
          previous_completed_at, last_sync, poll_seconds, pc, step, attempt,
          details, polled, slept, error, url, result, budget, flow_attempt, delays,
          other>>

\* What the orchestration keeps about the run.
run == <<budget, flow_attempt, delays>>

args == <<entry, connector_id, schedule_type, poll_seconds>>

ConnectorIds == {"", "12345"}

SetupStates == {"connected", "incomplete"}

ScheduleTypes == {"manual", "auto"}

\* Values a caller may pass as schedule_type.
ScheduleArgs == {"manual", "auto", "hourly"}

\* The two flows: trigger_fivetran_connector_sync_and_wait_for_completion
\* ("flow") and verify_and_start_fivetran_connector_sync.
Flows == {"flow", "verify_and_start"}

Entries == {"verify", "schedule", "trigger", "wait"} \cup Flows

\* The entry points that take poll_status_every_n_seconds: the wait task,
\* the flow, and the flow fivetran_sync_flow of fivetran.py.  Of
\* fivetran_sync_flow only the call of its wait task is modelled: what its
\* start task returned is any timestamp.
PollingEntries == {"wait", "flow", "fivetran_sync_flow"}

\* Values a caller may pass as poll_status_every_n_seconds.
PollArgs == {0, 60}

NoDetails == [setup_state |-> "none", schedule_type |-> "none", paused |-> FALSE,
              succeeded_at |-> Null, failed_at |-> Null,
              service |-> "none", schema |-> "none"]

\* Mutant of SetupUrl: the two arguments of format() in the other order.
SetupUrlSchemaFirst(connector_details) ==
    <<"https://fivetran.com/dashboard/connectors", connector_details.schema,
      connector_details.service, "setup">>

\* "https://fivetran.com/dashboard/connectors/{}/{}/setup".format(service, schema)
SetupUrl(connector_details) ==
    <<"https://fivetran.com/dashboard/connectors", connector_details.service,
      connector_details.schema, "setup">>

\* .../connectors/{current_details["service"]}/{current_details["schema"]}/logs
LogsUrl(current_details) ==
    <<"https://fivetran.com/dashboard/connectors", current_details.service,
      current_details.schema, "logs">>

NoUrl == <<>>

\* What an invocation returns: the kind of value, and for the wait task the
\* dict {succeeded_at, connector_id}.
Returned(kind, id, at) == [value |-> kind, connector_id |-> id, succeeded_at |-> at]

NoResult == Returned("none", "", Null)

NoBody == [field |-> "none", value |-> "none"]

(* ------------------------------ remote --------------------------------- *)

\* Timestamps the connector may carry when the invocation starts.
PastTimes == {Null, RemoteTime(0)}

InitialConnectors ==
    [setup_state : SetupStates, schedule_type : ScheduleTypes, paused : BOOLEAN,
     succeeded_at : PastTimes, failed_at : PastTimes,
     service : {"adwords"}, schema : {"adwords.schema"}]

\* service and schema of the connectors of the two mocked responses.
Sources == {[service |-> "adwords", schema |-> "adwords.schema"],
            [service |-> "criteo", schema |-> "criteo"]}

\* Connectors of either source that have never run.
ServiceConnectors ==
    {[setup_state |-> s, schedule_type |-> t, paused |-> p,
      succeeded_at |-> Null, failed_at |-> Null,
      service |-> x.service, schema |-> x.schema] :
        s \in SetupStates, t \in ScheduleTypes, p \in BOOLEAN, x \in Sources}

\* PATCH /v1/connectors/{id}: the fields of the body replace the connector's.
Patched(conn, body) ==
    IF body.field = "schedule_type" THEN [conn EXCEPT !.schedule_type = body.value]
    ELSE IF body.field = "paused" THEN [conn EXCEPT !.paused = (body.value = "true")]
    ELSE conn

\* The API answers a request for a connector it knows, unless it fails.
Answers(ok) == ok /\ connector_id # ""

\* Whether the next request may fail (a non-2xx response).
Outcomes == IF faults < budget THEN BOOLEAN ELSE {TRUE}

\* The request reaches the API.  A fetch that is answered carries the
\* connector's details back; what the fetches of the wait task carry back
\* is kept in polled.  Of a force request the time is kept: the run it
\* starts cannot end before it.
Send(op, body, ok) ==
    /\ sent' = Append(sent, [op |-> op, step |-> step, attempt |-> attempt,
                             id |-> connector_id, body |-> body, ok |-> Answers(ok),
                             at |-> IF op = "force" THEN now ELSE 0,
                             seen |-> IF op = "get" /\ step # "wait" /\ Answers(ok) THEN remote
                                      ELSE NoDetails])
    /\ faults' = IF ok THEN faults ELSE faults + 1

\* The fetches of the running attempt of the wait task.
IsPoll(r) == r.op = "get" /\ r.step = "wait" /\ r.attempt = attempt

Polls == SelectSeq(sent, IsPoll)

\* The invocation reads the connector's timestamps and the clock in the
\* start and wait tasks only, at a fetch or at the force request: a sync
\* that ends at any other moment is seen there, as if it had ended right
\* before that request.
Watching == pc \in {"trigger", "trigger_force", "wait"}

\* The second invocation before it is made.  fetched_at and patched_at are
\* the number of requests of the first invocation that had reached the API
\* when the second fetched and patched.
NoOther == [pc |-> "idle", schedule_type |-> "none", fetched_at |-> 0, patched_at |-> 0]

\* The state before the invocation: the connector is one of connectors,
\* and the API may fail up to failures requests.
Start(connectors, failures) ==
    /\ now = 0
    /\ remote \in connectors
    /\ sent = <<>>
    /\ faults = 0
    /\ entry = "none"
    /\ connector_id = ""
    /\ schedule_type = "manual"
    /\ previous_completed_at = Null
    /\ last_sync = Null
    /\ poll_seconds = DefaultPollSeconds
    /\ pc = "idle"
    /\ step = "none"
    /\ attempt = 0
    /\ details = NoDetails
    /\ polled = <<>>
    /\ slept = <<>>
    /\ error = "none"
    /\ url = NoUrl
    /\ result = NoResult
    /\ budget = failures
    /\ flow_attempt = 0
    /\ delays = <<>>
    /\ other = NoOther

Init == Start(InitialConnectors, MaxFaults)

(* ------------------------- orchestration ------------------------------- *)

\* Mutants of Retries: every task has the retries of the start task; no
\* task has any.
RetriesOfStart(task) == StartRetries

RetriesOfVerify(task) == VerifyRetries

\* retries= of the @task decorator of each task.
Retries(task) ==
    CASE task = "verify" -> VerifyRetries
      [] task = "schedule" -> ScheduleRetries
      [] task = "trigger" -> StartRetries
      [] task = "wait" -> WaitRetries
      [] OTHER -> 0

\* retries= of the @flow decorator of each flow (none: no retry).
FlowRetries(e) == IF e = "verify_and_start" THEN VerifyAndStartRetries ELSE 0

\* The first task an invocation runs.  verify_and_start calls the verify
\* task without awaiting it: the coroutine is truthy and never runs, so the
\* first task that runs is the schedule task.
FirstTask(e) ==
    CASE e = "flow" -> "verify"
      [] e = "verify_and_start" -> "schedule"
      [] e = "fivetran_sync_flow" -> "wait"
      [] OTHER -> e

\* The poll_status_every_n_seconds the wait task of an entry point runs
\* with, given the one the entry point was called with: the flow passes
\* its argument on, fivetran_sync_flow passes the literal 10.
PollInterval(e, requested) ==
    IF e = "fivetran_sync_flow" THEN SyncFlowPollSeconds ELSE requested

\* The default of poll_status_every_n_seconds of an entry point.
DefaultPoll(e) == IF e = "flow" THEN FlowPollSeconds ELSE DefaultPollSeconds

\* Mutant of Following: the flow starts the sync before it sets the schedule.
FollowingSwapped(e, task) ==
    CASE e = "flow" /\ task = "verify" -> "trigger"
      [] e = "flow" /\ task = "trigger" -> "schedule"
      [] e = "flow" /\ task = "schedule" -> "wait"
      [] e = "verify_and_start" /\ task = "schedule" -> "trigger"
      [] OTHER -> "return"

\* The task a flow awaits after task has returned, or "return".
Following(e, task) ==
    CASE e = "flow" /\ task = "verify" -> "schedule"
      [] e \in Flows /\ task = "schedule" -> "trigger"
      [] e = "flow" /\ task = "trigger" -> "wait"
      [] OTHER -> "return"

\* The running task raises with a message: its locals are gone.
RaiseAt(kind, where) ==
    /\ pc' = "raised"
    /\ error' = kind
    /\ url' = where
    /\ UNCHANGED <<step, attempt, result>>

Raise(kind) == RaiseAt(kind, NoUrl)

\* The flow or the caller starts a task.
Call(task) ==
    /\ pc' = task
    /\ step' = task
    /\ attempt' = 0
    /\ details' = NoDetails
    /\ UNCHANGED <<error, url, result>>

\* The task goes on to its next request, with the details it fetched.
Goto(place, fetched) ==
    /\ pc' = place
    /\ details' = fetched
    /\ UNCHANGED <<step, attempt, error, url, result>>

\* The invocation ends with a value.
Finish(value) ==
    /\ pc' = "done"
    /\ result' = value
    /\ UNCHANGED <<step, attempt, error, url>>

\* The task has returned value: the flow goes on to its next task, or the
\* invocation returns.
Then(task, value, fetched) ==
    IF Following(entry, task) = "return"
    THEN Finish(value) /\ details' = fetched
    ELSE Call(Following(entry, task))

\* A caller invokes one of callers, with one of the poll intervals that
\* intervals gives for it.
InvokeFrom(callers, intervals) ==
    /\ pc = "idle"
    /\ \E e \in callers, id \in ConnectorIds :
         /\ entry' = e
         /\ connector_id' = id
         /\ schedule_type' \in (IF e \in {"schedule"} \cup Flows THEN ScheduleArgs ELSE {"manual"})
         /\ poll_seconds' \in intervals[e]
         /\ previous_completed_at' \in
              (IF FirstTask(e) = "wait"
               THEN PastTimes \cup {NowString(now, o) : o \in HostOffsets}
               ELSE {Null})
         /\ Call(FirstTask(e))
    /\ UNCHANGED <<now, remote, sent, faults, last_sync, polled, slept, run, other>>

\* A caller invokes one task on its own, or the flow
\* trigger_fivetran_connector_sync_and_wait_for_completion, with the
\* default poll interval.
Invoke == InvokeFrom(Entries, [e \in Entries |-> {DefaultPoll(e)}])

\* A caller invokes an entry point that polls, with a poll interval of its
\* own.
InvokePolling == InvokeFrom(PollingEntries, [e \in PollingEntries |-> PollArgs])

\* Mutant of TaskRetry: the retry of the wait task takes the time of the
\* retry as its baseline.
TaskRetryNewBaseline ==
    /\ pc = "raised"
    /\ attempt < Retries(step)
    /\ pc' = step
    /\ attempt' = attempt + 1
    /\ error' = "none"
    /\ url' = NoUrl
    /\ details' = NoDetails
    /\ polled' = <<>>
    /\ slept' = <<>>
    /\ delays' = Append(delays, RetryDelaySeconds)
    /\ previous_completed_at' =
          (IF step = "wait" THEN NowString(now, 0) ELSE previous_completed_at)
    /\ UNCHANGED <<now, remote, sent, faults, args,
                   last_sync, step, result, budget, flow_attempt, other>>

\* Mutant of TaskRetry: the retry of the wait task starts the sync again.
TaskRetryStartsAgain ==
    /\ pc = "raised"
    /\ attempt < Retries(step)
    /\ pc' = (IF step = "wait" THEN "trigger_force" ELSE step)
    /\ attempt' = attempt + 1
    /\ error' = "none"
    /\ url' = NoUrl
    /\ details' = (IF step = "wait" THEN remote ELSE NoDetails)
    /\ polled' = <<>>
    /\ slept' = <<>>
    /\ delays' = Append(delays, RetryDelaySeconds)
    /\ UNCHANGED <<now, remote, sent, faults, args, previous_completed_at,
                   last_sync, step, result, budget, flow_attempt, other>>

\* Prefect runs a task that raised again while it has retries left.
TaskRetry ==
    /\ pc = "raised"
    /\ attempt < Retries(step)
    /\ pc' = step
    /\ attempt' = attempt + 1
    /\ error' = "none"
    /\ url' = NoUrl
    /\ details' = NoDetails
    /\ polled' = <<>>
    /\ slept' = <<>>
    /\ delays' = Append(delays, RetryDelaySeconds)
    /\ UNCHANGED <<now, remote, sent, faults, args, previous_completed_at,
                   last_sync, step, result, budget, flow_attempt, other>>

\* With no retry of the task left the exception leaves the task and the
\* flow; Prefect runs a flow that has retries left again, from its start.
FlowRetry ==
    /\ pc = "raised"
    /\ attempt >= Retries(step)
    /\ flow_attempt < FlowRetries(entry)
    /\ flow_attempt' = flow_attempt + 1
    /\ delays' = Append(delays, RetryDelaySeconds)
    /\ pc' = FirstTask(entry)
    /\ step' = FirstTask(entry)
    /\ attempt' = 0
    /\ error' = "none"
    /\ url' = NoUrl
    /\ details' = NoDetails
    /\ last_sync' = Null
    /\ polled' = <<>>
    /\ slept' = <<>>
    /\ UNCHANGED <<now, remote, sent, faults, args, previous_completed_at, result, budget, other>>

\* Mutant of TaskFails: the flow catches the exception of a task and goes
\* on with its next task.
TaskFailsFlowGoesOn ==
    /\ pc = "raised"
    /\ attempt >= Retries(step)
    /\ flow_attempt >= FlowRetries(entry)
    /\ IF Following(entry, step) = "return"
       THEN pc' = "failed" /\ UNCHANGED <<step, attempt, details, error, url, result>>
       ELSE Call(Following(entry, step))
    /\ UNCHANGED <<now, remote, sent, faults, args, previous_completed_at, last_sync,
                   polled, slept, run, other>>

\* Mutant of TaskFails: before the exception reaches the caller the
\* schedule type and the paused flag of the first fetch are patched back.
TaskFailsRollsBack ==
    /\ pc = "raised"
    /\ attempt >= Retries(step)
    /\ flow_attempt >= FlowRetries(entry)
    /\ pc' = "failed"
    /\ IF \E i \in 1..Len(sent) : sent[i].op = "get" /\ sent[i].ok /\ sent[i].step # "wait"
       THEN LET first == CHOOSE i \in 1..Len(sent) :
                            /\ sent[i].op = "get" /\ sent[i].ok /\ sent[i].step # "wait"
                            /\ \A j \in 1..(i - 1) :
                                  ~(sent[j].op = "get" /\ sent[j].ok /\ sent[j].step # "wait")
                body == [field |-> "schedule_type", value |-> sent[first].seen.schedule_type]
            IN  /\ remote' = [remote EXCEPT !.schedule_type = sent[first].seen.schedule_type,
                                            !.paused = sent[first].seen.paused]
                /\ sent' = Append(sent, [op |-> "patch", step |-> step, attempt |-> attempt,
                                         id |-> connector_id, body |-> body, ok |-> TRUE,
                                         at |-> 0, seen |-> NoDetails])
       ELSE UNCHANGED <<remote, sent>>
    /\ UNCHANGED <<now, faults, args, previous_completed_at, last_sync,
                   step, attempt, details, polled, slept, error, url, result, run, other>>

\* With no retry left the exception reaches the caller.
TaskFails ==
    /\ pc = "raised"
    /\ attempt >= Retries(step)
    /\ flow_attempt >= FlowRetries(entry)
    /\ pc' = "failed"
    /\ UNCHANGED <<now, remote, sent, faults, args, previous_completed_at, last_sync,
                   step, attempt, details, polled, slept, error, url, result, run, other>>

(* --------------------- verify_fivetran_connector_status ---------------- *)

\* setup_state != "connected"
NotConfigured(connector_details) == connector_details.setup_state # "connected"

VerifyStatus ==
    /\ pc = "verify"
    /\ IF connector_id = ""
       THEN /\ Raise("InvalidArgument")
            /\ UNCHANGED <<sent, faults, details>>
       ELSE \E ok \in Outcomes :
              /\ Send("get", NoBody, ok)
              /\ IF ~Answers(ok)
                 THEN Raise("RemoteError") /\ UNCHANGED details
                 ELSE IF NotConfigured(remote)
                      THEN RaiseAt("ConfigurationError", SetupUrl(remote)) /\ details' = remote
                      ELSE Then("verify", Returned("details", connector_id, Null), remote)
    /\ UNCHANGED <<now, remote, args, previous_completed_at, last_sync, polled, slept, run, other>>

(* --------------------- set_fivetran_connector_schedule ----------------- *)

\* Mutant of InvalidScheduleType: the argument is not checked.
ScheduleTypeNotChecked(requested) == FALSE

\* schedule_type not in ["manual", "auto"]
InvalidScheduleType(requested) == requested \notin {"manual", "auto"}

\* Mutant of ScheduleDiffers: compared with "manual", not with the argument.
DiffersFromManual(connector_details, requested) ==
    connector_details.schedule_type # "manual"

\* Mutant of ScheduleDiffers: the patch is sent without a comparison.
DiffersAlways(connector_details, requested) == TRUE

\* connector_details["schedule_type"] != schedule_type
ScheduleDiffers(connector_details, requested) ==
    connector_details.schedule_type # requested

ScheduleFetch ==
    /\ pc = "schedule"
    /\ IF InvalidScheduleType(schedule_type)
       THEN /\ Raise("InvalidArgument")
            /\ UNCHANGED <<sent, faults, details>>
       ELSE \E ok \in Outcomes :
              /\ Send("get", NoBody, ok)
              /\ IF ~Answers(ok)
                 THEN Raise("RemoteError") /\ UNCHANGED details
                 ELSE IF ScheduleDiffers(remote, schedule_type)
                      THEN Goto("schedule_patch", remote)
                      ELSE Then("schedule", Returned("none", connector_id, Null), remote)
    /\ UNCHANGED <<now, remote, args, previous_completed_at, last_sync, polled, slept, run, other>>

SchedulePatch ==
    /\ pc = "schedule_patch"
    /\ \E ok \in Outcomes :
         LET body == [field |-> "schedule_type", value |-> schedule_type] IN
         /\ Send("patch", body, ok)
         /\ IF ~Answers(ok)
            THEN Raise("RemoteError") /\ UNCHANGED <<remote, details>>
            ELSE /\ remote' = Patched(remote, body)
                 /\ Then("schedule", Returned("patched", connector_id, Null), details)
    /\ UNCHANGED <<now, args, previous_completed_at, last_sync, polled, slept, run, other>>

(* ---------------------- start_fivetran_connector_sync ------------------ *)

\* Mutants of MustUnpause: the patch is sent whatever paused is; never.
AlwaysUnpause(connector_details) == TRUE

NeverUnpause(connector_details) == FALSE

\* if connector_details["paused"]
MustUnpause(connector_details) == connector_details.paused

\* Mutants of LastSync: the earlier of the two; no time of the call for a
\* connector that never ran.
EarlierSync(succeeded_at, failed_at, nowstr) ==
    LET s == IF succeeded_at.isnull /\ failed_at.isnull THEN nowstr ELSE succeeded_at
    IN  IF After(parse_timestamp(failed_at), parse_timestamp(s)) THEN s ELSE failed_at

LastSyncWithoutNow(succeeded_at, failed_at, nowstr) ==
    IF After(parse_timestamp(succeeded_at), parse_timestamp(failed_at))
    THEN succeeded_at ELSE failed_at

\* last_sync: the later of the two timestamps of the fetched details, with
\* the time of the call in place of succeeded_at when both are null.
LastSync(succeeded_at, failed_at, nowstr) ==
    LET s == IF succeeded_at.isnull /\ failed_at.isnull THEN nowstr ELSE succeeded_at
    IN  IF After(parse_timestamp(s), parse_timestamp(failed_at)) THEN s ELSE failed_at

StartFetch ==
    /\ pc = "trigger"
    /\ \E ok \in Outcomes :
         /\ Send("get", NoBody, ok)
         /\ IF ~Answers(ok)
            THEN Raise("RemoteError") /\ UNCHANGED details
            ELSE Goto(IF MustUnpause(remote) THEN "trigger_unpause" ELSE "trigger_force",
                      remote)
    /\ UNCHANGED <<now, remote, args, previous_completed_at, last_sync, polled, slept, run, other>>

\* Mutant of StartUnpause: the patch pauses the connector.
StartUnpausePauses ==
    /\ pc = "trigger_unpause"
    /\ \E ok \in Outcomes :
         LET body == [field |-> "paused", value |-> "true"] IN
         /\ Send("patch", body, ok)
         /\ IF ~Answers(ok)
            THEN Raise("RemoteError") /\ UNCHANGED <<remote, details>>
            ELSE /\ remote' = Patched(remote, body)
                 /\ Goto("trigger_force", details)
    /\ UNCHANGED <<now, args, previous_completed_at, last_sync, polled, slept, run, other>>

\* patch_connector(data={"paused": False})
StartUnpause ==
    /\ pc = "trigger_unpause"
    /\ \E ok \in Outcomes :
         LET body == [field |-> "paused", value |-> "false"] IN
         /\ Send("patch", body, ok)
         /\ IF ~Answers(ok)
            THEN Raise("RemoteError") /\ UNCHANGED <<remote, details>>
            ELSE /\ remote' = Patched(remote, body)
                 /\ Goto("trigger_force", details)
    /\ UNCHANGED <<now, args, previous_completed_at, last_sync, polled, slept, run, other>>

StartForce ==
    /\ pc = "trigger_force"
    /\ \E ok \in Outcomes, o \in HostOffsets :
         LET computed == LastSync(details.succeeded_at, details.failed_at, NowString(now, o)) IN
         /\ Send("force", NoBody, ok)
         /\ IF ~Answers(ok)
            THEN Raise("RemoteError") /\ UNCHANGED <<last_sync, previous_completed_at, details>>
            ELSE /\ last_sync' = computed
                 /\ Then("trigger", Returned("last_sync", connector_id, computed), details)
                 /\ previous_completed_at' =
                       IF Following(entry, "trigger") = "wait" THEN computed
                       ELSE previous_completed_at
    /\ UNCHANGED <<now, remote, args, polled, slept, run, other>>

(* --------------------- wait_for_fivetran_connector_sync ---------------- *)

\* Mutants of FailedSince: any failed_at counts; the failure is judged
\* against succeeded_at; the check is missing.
FailedAtIsSet(current_details, previous) == ~current_details.failed_at.isnull

FailedAfterSucceeded(current_details, previous) ==
    After(parse_timestamp(current_details.failed_at),
          parse_timestamp(current_details.succeeded_at))

FailureNotChecked(current_details, previous) == FALSE

\* Mutant of FailedSince: the failed_at of the first response of the attempt
\* is looked at, not that of the response just fetched.
FailedSinceFirstPoll(current_details, previous) ==
    After(parse_timestamp((IF polled = <<>> THEN current_details ELSE polled[1]).failed_at),
          parse_timestamp(previous))

\* Mutant of FailedSince: the failure counts only when no later success
\* followed it.
FailedSinceAndLatest(current_details, previous) ==
    /\ After(parse_timestamp(current_details.failed_at), parse_timestamp(previous))
    /\ ~After(parse_timestamp(current_details.succeeded_at),
              parse_timestamp(current_details.failed_at))

\* failed_at > parse_timestamp(previous_completed_at)
FailedSince(current_details, previous) ==
    After(parse_timestamp(current_details.failed_at), parse_timestamp(previous))

\* current_completed_at: the later of the two parsed timestamps.
CurrentCompletedAt(current_details) ==
    LET succeeded_at == parse_timestamp(current_details.succeeded_at)
        failed_at == parse_timestamp(current_details.failed_at)
    IN  IF After(succeeded_at, failed_at) THEN succeeded_at ELSE failed_at

\* Mutant of CompletedSince: >= for >.
CompletedSinceOrAt(current_details, previous) ==
    ~After(parse_timestamp(previous), CurrentCompletedAt(current_details))

\* Mutant of CompletedSince: < for >.
CompletedBefore(current_details, previous) ==
    After(parse_timestamp(previous), CurrentCompletedAt(current_details))

\* current_completed_at > parse_timestamp(previous_completed_at)
CompletedSince(current_details, previous) ==
    After(CurrentCompletedAt(current_details), parse_timestamp(previous))

\* The dict the wait task returns.
SyncResult(current_details, id) ==
    Returned("sync", id,
             to_iso8601_string(parse_timestamp(current_details.succeeded_at)))

WaitPoll ==
    /\ pc = "wait"
    /\ Len(Polls) < MaxPolls
    /\ \E ok \in Outcomes :
         /\ Send("get", NoBody, ok)
         /\ IF ~Answers(ok)
            THEN Raise("RemoteError") /\ UNCHANGED <<details, polled>>
            ELSE /\ details' = remote
                 /\ polled' = Append(polled, remote)
                 /\ IF FailedSince(remote, previous_completed_at)
                    THEN RaiseAt("SyncFailed", LogsUrl(remote))
                    ELSE IF CompletedSince(remote, previous_completed_at)
                         THEN Finish(SyncResult(remote, connector_id))
                         ELSE pc' = "wait_sleep" /\ UNCHANGED <<step, attempt, error, url, result>>
    /\ UNCHANGED <<now, remote, args, previous_completed_at, last_sync, slept, run, other>>

\* Mutant of WaitSleep: the loop is left after the sleep.
WaitSleepThenGiveUp ==
    /\ pc = "wait_sleep"
    /\ slept' = Append(slept, PollInterval(entry, poll_seconds))
    /\ Finish(SyncResult(details, connector_id))
    /\ UNCHANGED <<now, remote, sent, faults, args, previous_completed_at, last_sync,
                   details, polled, run, other>>

\* Mutant of WaitSleep: two sleeps before the next poll.
WaitSleepTwice ==
    /\ pc = "wait_sleep"
    /\ slept' = slept \o <<PollInterval(entry, poll_seconds), PollInterval(entry, poll_seconds)>>
    /\ pc' = "wait"
    /\ UNCHANGED <<now, remote, sent, faults, args, previous_completed_at, last_sync,
                   step, attempt, details, polled, error, url, result, run, other>>

\* await asyncio.sleep(poll_status_every_n_seconds)
WaitSleep ==
    /\ pc = "wait_sleep"
    /\ slept' = Append(slept, PollInterval(entry, poll_seconds))
    /\ pc' = "wait"
    /\ UNCHANGED <<now, remote, sent, faults, args, previous_completed_at, last_sync,
                   step, attempt, details, polled, error, url, result, run, other>>

(* ----------- a second invocation of set_fivetran_connector_schedule ---- *)

\* While the first invocation runs, another caller invokes the schedule
\* task on the same connector with another schedule type.
OtherInvoke ==
    /\ pc \notin {"idle", "done", "failed"}
    /\ other.pc = "idle"
    /\ \E t \in ScheduleTypes \ {schedule_type} :
         other' = [NoOther EXCEPT !.pc = "schedule", !.schedule_type = t]
    /\ UNCHANGED <<now, remote, sent, faults, args, previous_completed_at, last_sync,
                   pc, step, attempt, details, polled, slept, error, url, result,
                   budget, flow_attempt, delays>>

\* After the schedule task has returned, or has failed on a remote error,
\* the caller invokes it a second time with the same arguments.
ScheduleAgain ==
    /\ entry = "schedule"
    /\ pc \in {"done", "failed"}
    /\ connector_id # ""
    /\ ~InvalidScheduleType(schedule_type)
    /\ other.pc = "idle"
    /\ other' = [NoOther EXCEPT !.pc = "schedule", !.schedule_type = schedule_type]
    /\ UNCHANGED <<now, remote, sent, faults, args, previous_completed_at, last_sync,
                   pc, step, attempt, details, polled, slept, error, url, result,
                   budget, flow_attempt, delays>>

\* Its fetch and its comparison with the schedule type it wants.
OtherScheduleFetch ==
    /\ other.pc = "schedule"
    /\ other' = [other EXCEPT
                   !.pc = IF ScheduleDiffers(remote, other.schedule_type)
                          THEN "schedule_patch" ELSE "done",
                   !.fetched_at = Len(sent)]
    /\ UNCHANGED <<now, remote, sent, faults, args, previous_completed_at, last_sync,
                   pc, step, attempt, details, polled, slept, error, url, result,
                   budget, flow_attempt, delays>>

\* Mutant of OtherSchedulePatch: the patch waits while the first
\* invocation is in its schedule task.
OtherSchedulePatchInTurn ==
    /\ other.pc = "schedule_patch"
    /\ pc \notin {"schedule", "schedule_patch"}
    /\ remote' = Patched(remote, [field |-> "schedule_type", value |-> other.schedule_type])
    /\ other' = [other EXCEPT !.pc = "done", !.patched_at = Len(sent)]
    /\ UNCHANGED <<now, sent, faults, args, previous_completed_at, last_sync,
                   pc, step, attempt, details, polled, slept, error, url, result,
                   budget, flow_attempt, delays>>

\* Its patch.
OtherSchedulePatch ==
    /\ other.pc = "schedule_patch"
    /\ remote' = Patched(remote, [field |-> "schedule_type", value |-> other.schedule_type])
    /\ other' = [other EXCEPT !.pc = "done", !.patched_at = Len(sent)]
    /\ UNCHANGED <<now, sent, faults, args, previous_completed_at, last_sync,
                   pc, step, attempt, details, polled, slept, error, url, result,
                   budget, flow_attempt, delays>>

(* ------------------------ the remote on its own ------------------------ *)

\* Time passes and a sync of the connector ends well: the remote stamps
\* succeeded_at with the time it ended.
SyncSucceeds ==
    /\ Watching
    /\ now < MaxTime
    /\ now' = now + 1
    /\ remote' = [remote EXCEPT !.succeeded_at = RemoteTime(now + 1)]
    /\ UNCHANGED <<sent, faults, args, previous_completed_at, last_sync, pc, step,
                   attempt, details, polled, slept, error, url, result, run, other>>

\* Time passes and a sync of the connector ends badly: the remote stamps
\* failed_at with the time it ended.
SyncFails ==
    /\ Watching
    /\ now < MaxTime
    /\ now' = now + 1
    /\ remote' = [remote EXCEPT !.failed_at = RemoteTime(now + 1)]
    /\ UNCHANGED <<sent, faults, args, previous_completed_at, last_sync, pc, step,
                   attempt, details, polled, slept, error, url, result, run, other>>

Next ==
    \/ Invoke
    \/ VerifyStatus
    \/ ScheduleFetch
    \/ SchedulePatch
    \/ StartFetch
    \/ StartUnpause
    \/ StartForce
    \/ WaitPoll
    \/ WaitSleep
    \/ TaskRetry
    \/ FlowRetry
    \/ TaskFails
    \/ SyncSucceeds
    \/ SyncFails

Spec == Init /\ [][Next]_vars

\* The same program against connectors of either source.
InitServices == Start(ServiceConnectors, MaxFaults)

SpecServices == InitServices /\ [][Next]_vars

\* A paused connector on Fivetran's own schedule that has never run.
RetryConnectors ==
    {c \in ServiceConnectors :
        c.service = "adwords" /\ c.paused /\ c.schedule_type = "auto"}

\* Failed requests enough to use up every retry of one task.
RetryFaults == StartRetries + 1

\* The same program against an API that fails up to RetryFaults requests.
InitRetries == Start(RetryConnectors, RetryFaults)

SpecRetries == InitRetries /\ [][Next]_vars

\* Callers that choose the poll interval, against the connector of the
\* retry runs.
NextPolling ==
    \/ InvokePolling
    \/ VerifyStatus
    \/ ScheduleFetch
    \/ SchedulePatch
    \/ StartFetch
    \/ StartUnpause
    \/ StartForce
    \/ WaitPoll
    \/ WaitSleep
    \/ TaskRetry
    \/ TaskFails
    \/ SyncSucceeds
    \/ SyncFails

InitPolling == Start(RetryConnectors, MaxFaults)

SpecPolling == InitPolling /\ [][NextPolling]_vars

\* A caller invokes the schedule task.
InvokeSchedule == InvokeFrom({"schedule"}, [e \in {"schedule"} |-> {DefaultPoll(e)}])

\* Two invocations of the schedule task on one connector.
NextRace ==
    \/ InvokeSchedule
    \/ ScheduleFetch
    \/ SchedulePatch
    \/ TaskFails
    \/ OtherInvoke
    \/ OtherScheduleFetch
    \/ OtherSchedulePatch

SpecRace == Init /\ [][NextRace]_vars

\* The schedule task invoked twice in a row with the same arguments.
NextTwice ==
    \/ InvokeSchedule
    \/ ScheduleFetch
    \/ SchedulePatch
    \/ TaskFails
    \/ ScheduleAgain
    \/ OtherScheduleFetch
    \/ OtherSchedulePatch

SpecTwice == Init /\ [][NextTwice]_vars

\* Connectors whose last syncs may have ended at any time the API can
\* write, a time before 1970 among them.
AnyTimes == {Null, RemoteTime(SentinelEpoch - 1), RemoteTime(0)}

AnyTimeConnectors ==
    {[c EXCEPT !.succeeded_at = s, !.failed_at = f] :
        c \in RetryConnectors, s \in AnyTimes, f \in AnyTimes}

InitAnyTime == Start(AnyTimeConnectors, MaxFaults)

SpecAnyTime == InitAnyTime /\ [][Next]_vars

\* The event loop resumes the wait task whenever the request or the sleep
\* it awaits is over: a poll or the end of a sleep that stays possible
\* happens.  The connector is that of the retry runs.
SpecFair == InitPolling /\ [][Next]_vars /\ WF_vars(WaitPoll) /\ WF_vars(WaitSleep)

TypeOK ==
    /\ now \in 0..MaxTime
    /\ pc \in {"idle", "verify", "schedule", "schedule_patch", "trigger",
               "trigger_unpause", "trigger_force", "wait", "wait_sleep",
               "raised", "failed", "done"}

(* ======================= the claims, C1 to C10 ========================= *)

\* The instant a timestamp of the API parses to.
Inst(api_time) == parse_timestamp(api_time).inst

\* parse(previous_completed_at): the baseline of the wait task.
Baseline == Inst(previous_completed_at)

NewerSucceeded(response) == Inst(response.succeeded_at) > Baseline

NewerFailed(response) == Inst(response.failed_at) > Baseline

Stale(response) == ~NewerSucceeded(response) /\ ~NewerFailed(response)

LaterInst(response) ==
    IF Inst(response.succeeded_at) >= Inst(response.failed_at)
    THEN Inst(response.succeeded_at)
    ELSE Inst(response.failed_at)

LastPolled == polled[Len(polled)]

WaitReturned == step = "wait" /\ pc = "done"

WaitRaisedSyncFailed == step = "wait" /\ pc \in {"raised", "failed"} /\ error = "SyncFailed"

StalePolls == Cardinality({i \in 1..Len(polled) : Stale(polled[i])})

\* C1: the wait task returns, or raises its sync-failed error, only on a
\* poll whose response carries succeeded_at or failed_at strictly later than
\* parse(previous_completed_at); a poll whose response carries neither ends
\* nothing: the task sleeps once after it and polls again.  (A fetch that
\* the API fails brings no response; it ends the attempt with the remote
\* error.)
C1_EndsOnlyOnNewerTimestamp ==
    /\ (WaitReturned \/ WaitRaisedSyncFailed) =>
          /\ polled # <<>>
          /\ NewerSucceeded(LastPolled) \/ NewerFailed(LastPolled)
    /\ \A i \in 1..Len(polled) :
          Stale(polled[i]) =>
             \/ i < Len(polled)
             \/ pc = "wait_sleep"
             \/ pc = "wait" /\ Len(slept) = i
             \/ pc \in {"raised", "failed"} /\ error = "RemoteError" /\ Len(slept) = i
    /\ step = "wait" =>
          Len(slept) = IF pc = "wait_sleep" THEN StalePolls - 1 ELSE StalePolls
    /\ pc = "wait_sleep" => polled # <<>> /\ Stale(LastPolled)

\* The wait task has returned on its second poll, after a first one that
\* carried nothing newer than the baseline.
C1_Witness ==
    /\ WaitReturned
    /\ Len(polled) = 2
    /\ Stale(polled[1])
    /\ Len(slept) = 1

\* Every response of this attempt carries the same failed_at, one that is
\* not later than the baseline.
FailedAtStaysStale ==
    /\ polled # <<>>
    /\ \A i \in 1..Len(polled) :
          /\ polled[i].failed_at = polled[1].failed_at
          /\ ~NewerFailed(polled[i])

\* C2: while failed_at stays constant at a value not later than the
\* baseline, the wait task never raises the sync-failed error, and on the
\* response whose succeeded_at is later than the baseline it returns success
\* carrying that succeeded_at.
C2_StaleFailureIsNotAFailure ==
    (step = "wait" /\ FailedAtStaysStale) =>
        /\ error # "SyncFailed"
        /\ \A i \in 1..Len(polled) :
              NewerSucceeded(polled[i]) =>
                 /\ i = Len(polled)
                 /\ pc = "done"
                 /\ result.value = "sync"
                 /\ result.succeeded_at = polled[i].succeeded_at

\* The flow took the stale failed_at = T0 as its baseline, and has returned
\* success with the succeeded_at = T1 > T0 of a later poll.
C2_Witness ==
    /\ entry = "flow"
    /\ WaitReturned
    /\ ~previous_completed_at.isnull
    /\ Len(polled) = 2
    /\ LastPolled.failed_at = previous_completed_at
    /\ Inst(result.succeeded_at) > Inst(LastPolled.failed_at)

\* C3: the wait task raises the sync-failed error on the first poll whose
\* response carries a failed_at later than the baseline: no earlier poll of
\* the attempt raised it, and the attempt sends no request after that poll.
C3_RaisesExactlyAtTheFailedPoll ==
    step = "wait" =>
        /\ \A i \in 1..Len(polled) :
              NewerFailed(polled[i]) =>
                 /\ i = Len(polled)
                 /\ pc \in {"raised", "failed"}
                 /\ error = "SyncFailed"
                 /\ Len(Polls) = i
                 /\ sent[Len(sent)] = Polls[i]
        /\ error = "SyncFailed" => polled # <<>> /\ NewerFailed(LastPolled)

\* The sync-failed error was raised on the second poll of an attempt.
C3_Witness ==
    /\ WaitRaisedSyncFailed
    /\ pc = "raised"
    /\ Len(polled) = 2
    /\ ~NewerFailed(polled[1])

\* C4: when the wait task returns, it returns {connector_id, succeeded_at}
\* with the connector_id it was given and succeeded_at the later of the two
\* parsed timestamps of its last poll, which is later than the baseline.
C4_ResultIsTheLaterTimestamp ==
    WaitReturned =>
        /\ polled # <<>>
        /\ result.value = "sync"
        /\ result.connector_id = connector_id
        /\ Inst(result.succeeded_at) = LaterInst(LastPolled)
        /\ Inst(result.succeeded_at) > Baseline

\* The wait task has returned on a response that carries a failed_at too.
C4_Witness ==
    /\ WaitReturned
    /\ ~LastPolled.failed_at.isnull
    /\ ~LastPolled.succeeded_at.isnull
    /\ result.connector_id = "12345"

(* ----------------- what the log of requests shows ---------------------- *)

IsFetchOf(r, task) == r.op = "get" /\ r.step = task /\ r.ok

IsUnpause(r) == r.op = "patch" /\ r.body = [field |-> "paused", value |-> "false"]

IsSchedulePatch(r, requested) ==
    r.op = "patch" /\ r.body = [field |-> "schedule_type", value |-> requested]

NeverRan(fetched) == fetched.succeeded_at.isnull /\ fetched.failed_at.isnull

\* The requests a step sent: what was asked, without the answers.
Asked(r) == <<r.op, r.step, r.body>>

RECURSIVE AskedAll(_)
AskedAll(log) ==
    IF log = <<>> THEN <<>> ELSE <<Asked(log[1])>> \o AskedAll(Tail(log))

\* C5: the start task returns as baseline the later of parse(succeeded_at)
\* and parse(failed_at) of the details it fetched, in the same attempt,
\* before it sent the force request, whenever at least one of the two is
\* present (ties and a single absent timestamp included); the baseline is
\* one of the two timestamps as fetched.
C5_BaselineIsTheLaterFetched ==
    \A j \in 1..Len(sent) :
       (sent[j].op = "force" /\ sent[j].ok) =>
          \E i \in 1..(j - 1) :
             /\ IsFetchOf(sent[i], "trigger")
             /\ sent[i].attempt = sent[j].attempt
             /\ ~NeverRan(sent[i].seen) =>
                   /\ Inst(last_sync) = LaterInst(sent[i].seen)
                   /\ last_sync \in {sent[i].seen.succeeded_at, sent[i].seen.failed_at}
             /\ entry = "trigger" =>
                   pc = "done" /\ result = Returned("last_sync", connector_id, last_sync)

\* The start task has returned the failed_at of a connector whose failed_at
\* is later than its succeeded_at.
C5_Witness ==
    /\ entry = "trigger"
    /\ pc = "done"
    /\ \E i \in 1..Len(sent) :
          /\ IsFetchOf(sent[i], "trigger")
          /\ sent[i].attempt = attempt
          /\ ~sent[i].seen.succeeded_at.isnull
          /\ Inst(sent[i].seen.failed_at) > Inst(sent[i].seen.succeeded_at)
          /\ result.succeeded_at = sent[i].seen.failed_at

\* C6: when the fetched details carry neither succeeded_at nor failed_at,
\* the baseline the start task returns is the time of the clock at that
\* step, never the sentinel of parse_timestamp.
C6_NeverRanBaselineIsNow ==
    [][(pc = "trigger_force" /\ pc' \in {"wait", "done"} /\ NeverRan(details)) =>
          /\ Inst(last_sync') = now
          /\ Inst(last_sync') # SentinelEpoch
          /\ ~last_sync'.isnull]_vars

\* The start task has returned a baseline for a connector that never ran.
C6_Witness ==
    /\ entry = "trigger"
    /\ pc = "done"
    /\ NeverRan(details)
    /\ result.value = "last_sync"
    /\ Inst(result.succeeded_at) = now

\* The requests of the flow when no request fails and the first poll ends
\* it: what each step fetched decides the two patches.
FlowRequests(scheduleSaw, triggerSaw) ==
    <<  <<"get", "verify", NoBody>>, <<"get", "schedule", NoBody>>  >>
    \o (IF scheduleSaw.schedule_type # "manual"
        THEN << <<"patch", "schedule", [field |-> "schedule_type", value |-> "manual"]>> >>
        ELSE <<>>)
    \o << <<"get", "trigger", NoBody>> >>
    \o (IF triggerSaw.paused
        THEN << <<"patch", "trigger", [field |-> "paused", value |-> "false"]>> >>
        ELSE <<>>)
    \o <<  <<"force", "trigger", NoBody>>, <<"get", "wait", NoBody>>  >>

\* The flow, asked for manual, ran without a failed request on a connector
\* that had never run when the start task fetched it, and the first poll
\* shows a succeeded_at later than the baseline (and still no failed_at).
NeverRanScenario ==
    /\ entry = "flow"
    /\ schedule_type = "manual"
    /\ faults = 0
    /\ step = "wait"
    /\ polled # <<>>
    /\ \E i \in 1..Len(sent) : IsFetchOf(sent[i], "trigger") /\ NeverRan(sent[i].seen)
    /\ NewerSucceeded(polled[1])
    /\ polled[1].failed_at.isnull

\* C7: end to end on a connector that has never run: Verify passes, the
\* schedule is patched to manual (when it is not manual yet), the connector
\* is unpaused if it was paused, the force request follows with the time of
\* the clock as baseline, and the first poll that shows a succeeded_at
\* later than the baseline ends the flow with a result carrying it.
C7_NeverRanEndToEnd ==
    /\ [](NeverRanScenario =>
            /\ pc = "done"
            /\ Len(polled) = 1
            /\ result = Returned("sync", connector_id, polled[1].succeeded_at)
            /\ previous_completed_at = last_sync
            /\ Inst(previous_completed_at) # SentinelEpoch
            /\ sent[1].seen.setup_state = "connected"
            /\ \E k \in 3..Len(sent) :
                  /\ IsFetchOf(sent[k], "trigger")
                  /\ AskedAll(sent) = FlowRequests(sent[2].seen, sent[k].seen)
            /\ \A i \in 1..Len(sent) : sent[i].ok
            /\ remote.schedule_type = "manual"
            /\ ~remote.paused)
    /\ [][(entry = "flow" /\ pc = "trigger_force" /\ pc' = "wait" /\ NeverRan(details)) =>
            Inst(previous_completed_at') = now]_vars

\* The flow has ended so on a connector that was paused and on auto.
C7_Witness ==
    /\ NeverRanScenario
    /\ pc = "done"
    /\ Len(sent) = 7
    /\ sent[1].seen.paused
    /\ sent[1].seen.schedule_type = "auto"
    /\ Inst(result.succeeded_at) = Inst(previous_completed_at) + 1

\* C8: the start task sends the patch {paused: false} exactly when the
\* details it fetched have paused = true, right after the fetch, and sends
\* the force request after it; for a connector that is not paused the force
\* request follows the fetch with no patch between.
C8_UnpauseIffPaused ==
    \A i \in 1..Len(sent) :
       /\ IsUnpause(sent[i]) =>
             /\ sent[i].step = "trigger"
             /\ i > 1
             /\ IsFetchOf(sent[i - 1], "trigger")
             /\ sent[i - 1].attempt = sent[i].attempt
             /\ sent[i - 1].seen.paused
       /\ IsFetchOf(sent[i], "trigger") =>
             IF sent[i].seen.paused
             THEN IF i = Len(sent)
                  THEN pc = "trigger_unpause"
                  ELSE IsUnpause(sent[i + 1]) /\ sent[i + 1].attempt = sent[i].attempt
             ELSE IF i = Len(sent)
                  THEN pc = "trigger_force"
                  ELSE sent[i + 1].op = "force" /\ sent[i + 1].attempt = sent[i].attempt
       /\ sent[i].op = "force" =>
             /\ i > 1
             /\ sent[i - 1].attempt = sent[i].attempt
             /\ \/ IsFetchOf(sent[i - 1], "trigger") /\ ~sent[i - 1].seen.paused
                \/ IsUnpause(sent[i - 1]) /\ sent[i - 1].ok

\* The start task has unpaused a paused connector and then forced it.
C8_Witness ==
    /\ entry = "trigger"
    /\ pc = "done"
    /\ Len(sent) = 3
    /\ sent[1].seen.paused
    /\ IsUnpause(sent[2])
    /\ sent[3].op = "force"
    /\ ~remote.paused

\* C9: the schedule task sends the patch {schedule_type: requested} exactly
\* when the schedule_type it fetched differs from the requested one, right
\* after the fetch; when they are equal it sends no write at all.
C9_PatchIffScheduleDiffers ==
    \A i \in 1..Len(sent) :
       /\ (sent[i].step = "schedule" /\ sent[i].op # "get") =>
             /\ IsSchedulePatch(sent[i], schedule_type)
             /\ i > 1
             /\ IsFetchOf(sent[i - 1], "schedule")
             /\ sent[i - 1].seen.schedule_type # schedule_type
       /\ IsFetchOf(sent[i], "schedule") =>
             IF sent[i].seen.schedule_type # schedule_type
             THEN IF i = Len(sent)
                  THEN pc = "schedule_patch"
                  ELSE IsSchedulePatch(sent[i + 1], schedule_type)
                       /\ sent[i + 1].step = "schedule"
             ELSE /\ pc # "schedule_patch"
                  /\ \A j \in (i + 1)..Len(sent) : sent[j].step # "schedule"

\* The schedule task has put a manual connector back on auto.
C9_Witness ==
    /\ entry = "schedule"
    /\ schedule_type = "auto"
    /\ pc = "done"
    /\ Len(sent) = 2
    /\ sent[1].seen.schedule_type = "manual"
    /\ IsSchedulePatch(sent[2], "auto")
    /\ remote.schedule_type = "auto"

\* C10: called with a schedule_type that is neither manual nor auto, the
\* schedule task raises the invalid-argument error and sends nothing: no
\* fetch and no patch of it reaches the API.
C10_InvalidScheduleTypeSendsNothing ==
    schedule_type \notin {"manual", "auto"} =>
        /\ \A i \in 1..Len(sent) : sent[i].step # "schedule"
        /\ entry = "schedule" => sent = <<>>
        /\ pc # "schedule_patch"
        /\ step \notin {"trigger", "wait"}
        /\ (step = "schedule" /\ pc # "schedule") =>
              pc \in {"raised", "failed"} /\ error = "InvalidArgument"

\* The schedule task, called on its own with "hourly", has failed.
C10_Witness ==
    /\ entry = "schedule"
    /\ schedule_type = "hourly"
    /\ connector_id = "12345"
    /\ pc = "failed"
    /\ error = "InvalidArgument"
    /\ sent = <<>>

(* ======================= the claims, C11 to C20 ======================== *)

\* C11: when the flow trigger_fivetran_connector_sync_and_wait_for_completion
\* is invoked with a schedule_type that is neither manual nor auto, no
\* request of any kind is sent to the API in that invocation.
C11_FlowRejectsScheduleTypeUnsent ==
    (entry = "flow" /\ InvalidScheduleType(schedule_type)) => sent = <<>>

\* C12: no request is ever sent to the API with an empty connector_id: an
\* invocation with an empty id raises the invalid-argument error before its
\* first request.
C12_NoRequestWithEmptyId ==
    /\ \A i \in 1..Len(sent) : sent[i].id # ""
    /\ (connector_id = "" /\ pc \in {"raised", "failed"}) => error = "InvalidArgument"

\* The first request of the invocation is the fetch of the verify task, and
\* it was answered.
VerifyFetched == sent # <<>> /\ IsFetchOf(sent[1], "verify")

\* C13: the verify task raises the configuration error whenever the
\* setup_state it fetched is not connected, with the setup URL built from
\* the fetched service and schema, and returns the fetched details when it
\* is connected; either way it sends exactly one fetch and no write.
C13_VerifyChecksSetupState ==
    /\ \A i \in 1..Len(sent) :
          sent[i].step = "verify" => i = 1 /\ sent[i].op = "get"
    /\ (step = "verify" /\ error = "ConfigurationError") =>
          VerifyFetched /\ sent[1].seen.setup_state # "connected"
    /\ VerifyFetched =>
          IF sent[1].seen.setup_state # "connected"
          THEN /\ Len(sent) = 1
               /\ step = "verify"
               /\ pc \in {"raised", "failed"}
               /\ error = "ConfigurationError"
               /\ url = <<"https://fivetran.com/dashboard/connectors",
                          sent[1].seen.service, sent[1].seen.schema, "setup">>
               /\ result = NoResult
          ELSE IF entry = "verify"
               THEN /\ pc = "done"
                    /\ Len(sent) = 1
                    /\ result.value = "details"
                    /\ details = sent[1].seen
                    /\ error = "none"
               ELSE step # "verify"
    /\ (entry = "verify" /\ pc = "done") => VerifyFetched

\* The verify task has failed on an incomplete adwords connector, and the
\* URL of its error names adwords and adwords.schema.
C13_Witness ==
    /\ entry = "verify"
    /\ pc = "failed"
    /\ error = "ConfigurationError"
    /\ Len(sent) = 1
    /\ sent[1].seen.setup_state = "incomplete"
    /\ url[2] = "adwords"
    /\ url[3] = "adwords.schema"

\* The place of a task in the flow.
Rank(task) ==
    CASE task = "verify" -> 1
      [] task = "schedule" -> 2
      [] task = "trigger" -> 3
      [] task = "wait" -> 4
      [] OTHER -> 0

\* The request that ended the last attempt of its task: the API failed it
\* and the task had no retry left, or it is the fetch that showed Verify a
\* connector that is not connected.
EndedItsTask(r) ==
    \/ ~r.ok /\ r.attempt = Retries(r.step)
    \/ IsFetchOf(r, "verify") /\ r.seen.setup_state # "connected"

\* C14: in the flow, an error in a step aborts every later step: after the
\* request on which a step failed for good the invocation sends nothing, and
\* a failed flow has sent no request of a step later than the one that
\* failed (no patch, force or poll after Verify, no force or poll after
\* Schedule, no poll after Trigger).
C14_ErrorAbortsLaterSteps ==
    /\ [](entry = "flow" =>
            /\ \A i \in 1..Len(sent) : EndedItsTask(sent[i]) => i = Len(sent)
            /\ pc \in {"raised", "failed"} =>
                  \A i \in 1..Len(sent) : Rank(sent[i].step) <= Rank(step)
            /\ (error # "none") => pc \in {"raised", "failed"}
            /\ InvalidScheduleType(schedule_type) =>
                  \A i \in 1..Len(sent) : sent[i].step = "verify")
    /\ [][(entry = "flow" /\ pc = "failed") => (pc' = "failed" /\ sent' = sent)]_vars

\* The flow has failed in the start task, whose four attempts the API
\* failed, and no poll was sent.
C14_Witness ==
    /\ entry = "flow"
    /\ pc = "failed"
    /\ step = "trigger"
    /\ attempt = StartRetries
    /\ error = "RemoteError"
    /\ \A i \in 1..Len(sent) : sent[i].step # "wait"
    /\ \E i \in 1..Len(sent) : sent[i].op = "patch" /\ sent[i].ok

IsWrite(r) == r.op \in {"patch", "force"}

\* C15: verify_and_start_fivetran_connector_sync sends no schedule patch,
\* no unpause patch and no force request for a connector whose setup_state
\* is not connected: before any write, a fetch of the verify task has shown
\* the connector connected.
C15_VerifyAndStartChecksBeforeWriting ==
    entry = "verify_and_start" =>
        \A i \in 1..Len(sent) :
           IsWrite(sent[i]) =>
              /\ remote.setup_state = "connected"
              /\ \E j \in 1..(i - 1) :
                    /\ IsFetchOf(sent[j], "verify")
                    /\ sent[j].seen.setup_state = "connected"

\* The request before the i-th was the last of the previous task of the
\* flow, or the failed last request of the previous attempt of the same task.
OpensAttempt(i, previous) ==
    /\ i > 1
    /\ \/ sent[i].attempt = 0 /\ sent[i - 1].step = previous /\ sent[i - 1].ok
       \/ /\ sent[i].attempt > 0
          /\ sent[i - 1].step = sent[i].step
          /\ sent[i - 1].attempt = sent[i].attempt - 1

\* C16: within one invocation of the flow the requests reach the API in
\* step order: Verify's fetch, then Schedule's fetch and optional patch,
\* then Trigger's fetch, optional unpause patch and force, then the polling
\* fetches; and the baseline the wait task polls against is the value the
\* start task of the same invocation returned.
C16_RequestsInStepOrder ==
    /\ [](entry = "flow" =>
            /\ \A i \in 1..(Len(sent) - 1) :
                  Rank(sent[i].step) <= Rank(sent[i + 1].step)
            /\ \A i \in 1..Len(sent) :
                  /\ sent[i].step = "verify" => i = 1 /\ sent[i].op = "get"
                  /\ sent[i].step = "schedule" =>
                        \/ sent[i].op = "get" /\ OpensAttempt(i, "verify")
                        \/ sent[i].op = "patch" /\ IsFetchOf(sent[i - 1], "schedule")
                  /\ sent[i].step = "trigger" =>
                        \/ sent[i].op = "get" /\ OpensAttempt(i, "schedule")
                        \/ IsUnpause(sent[i]) /\ IsFetchOf(sent[i - 1], "trigger")
                        \/ /\ sent[i].op = "force"
                           /\ sent[i - 1].step = "trigger"
                           /\ sent[i - 1].ok
                           /\ sent[i - 1].op # "force"
                  /\ sent[i].step = "wait" =>
                        /\ sent[i].op = "get"
                        /\ \/ sent[i - 1].op = "force" /\ sent[i - 1].ok
                           \/ sent[i - 1].step = "wait"
            /\ step = "wait" => previous_completed_at = last_sync /\ ~last_sync.isnull)
    /\ [][(entry = "flow" /\ pc = "trigger_force" /\ pc' = "wait") =>
             /\ previous_completed_at' = last_sync'
             /\ \E o \in HostOffsets :
                   last_sync' = LastSync(details.succeeded_at, details.failed_at,
                                         NowString(now, o))]_vars
    /\ [][(entry = "flow" /\ step = "wait") =>
             (previous_completed_at' = previous_completed_at /\ last_sync' = last_sync)]_vars

\* The flow has run to its end through every kind of request, the start
\* task once retried after a failed force request.
C16_Witness ==
    /\ entry = "flow"
    /\ pc = "done"
    /\ Len(sent) = 10
    /\ IsSchedulePatch(sent[3], schedule_type)
    /\ IsUnpause(sent[5])
    /\ sent[6].op = "force" /\ ~sent[6].ok
    /\ sent[7].op = "get" /\ sent[7].attempt = 1
    /\ sent[8].op = "force" /\ sent[8].ok
    /\ sent[9].step = "wait"
    /\ sent[10].step = "wait"

\* C17: a sync-failed error raised by the wait task is not retried: once a
\* poll has shown a failed_at later than the baseline, the invocation sends
\* no further request and the error stays raised until it reaches the caller.
C17_SyncFailedIsNotRetried ==
    [][(step = "wait" /\ error = "SyncFailed") =>
          /\ sent' = sent
          /\ error' = "SyncFailed"
          /\ pc' \in {"raised", "failed"}]_vars

\* C18: the verify task is attempted exactly once per invocation of the
\* flow: whether it fails with the configuration error or with a remote
\* error, the failure reaches the caller and Verify is not run again.
C18_VerifyRunsOnce ==
    /\ [](entry = "flow" =>
            /\ Cardinality({i \in 1..Len(sent) : sent[i].step = "verify"}) <= 1
            /\ step = "verify" => attempt = 0 /\ flow_attempt = 0 /\ delays = <<>>)
    /\ [][(entry = "flow" /\ step = "verify" /\ pc = "raised") => pc' = "failed"]_vars
    /\ [][(entry = "flow" /\ step # "verify") => step' # "verify"]_vars

\* The flow has failed in Verify, whose only fetch the API failed.
C18_Witness ==
    /\ entry = "flow"
    /\ step = "verify"
    /\ pc = "failed"
    /\ error = "RemoteError"
    /\ Len(sent) = 1
    /\ faults = 1

\* A task has raised the remote error.
RemoteErrorIn(tasks) == pc = "raised" /\ error = "RemoteError" /\ step \in tasks

\* The exception leaves the task: it reaches the caller, or the flow
\* verify_and_start is run again from its start.
LeavesTheTask ==
    \/ pc' = "failed" /\ error' = error /\ sent' = sent
    \/ entry = "verify_and_start" /\ flow_attempt' = flow_attempt + 1 /\ attempt' = 0

\* C19 as stated: every transient step (Schedule, Trigger, Poll) that fails
\* with a remote error is retried at least once.
C19_EveryTransientStepIsRetried ==
    [][(RemoteErrorIn({"schedule", "trigger", "wait"}) /\ attempt = 0) =>
          (pc' = step /\ attempt' = 1)]_vars

\* C19, amended: the start task and the wait task that fail with a remote
\* error are run again after a fixed delay of 10 seconds, up to 3 retries,
\* and the error of the fourth failed attempt leaves the task; the schedule
\* task, like the verify task, has no retry: its remote error leaves the
\* task at once.
C19_StartAndWaitAreRetried ==
    /\ [](/\ attempt <= StartRetries
          /\ step \in {"verify", "schedule"} => attempt = 0
          /\ \A i \in 1..Len(delays) : delays[i] = RetryDelaySeconds
          /\ \A i \in 1..Len(sent) : sent[i].attempt <= StartRetries
          /\ (pc = "failed" /\ error = "RemoteError" /\ step \in {"trigger", "wait"}
              /\ connector_id # "") =>
                /\ attempt = StartRetries
                /\ Len(delays) >= StartRetries
                /\ sent[Len(sent)].step = step
                /\ sent[Len(sent)].attempt = StartRetries
                /\ ~sent[Len(sent)].ok)
    /\ [][(RemoteErrorIn({"trigger", "wait"}) /\ attempt < StartRetries) =>
             /\ pc' = step
             /\ attempt' = attempt + 1
             /\ delays' = Append(delays, RetryDelaySeconds)
             /\ previous_completed_at' = previous_completed_at]_vars
    /\ [][(RemoteErrorIn({"trigger", "wait"}) /\ attempt = StartRetries) => LeavesTheTask]_vars
    /\ [][RemoteErrorIn({"schedule"}) => LeavesTheTask]_vars

\* The wait task of the flow has failed for good: the API failed the poll
\* of each of its four attempts, 10 seconds apart.
C19_Witness ==
    /\ entry = "flow"
    /\ step = "wait"
    /\ pc = "failed"
    /\ error = "RemoteError"
    /\ attempt = StartRetries
    /\ faults = StartRetries + 1
    /\ delays = <<RetryDelaySeconds, RetryDelaySeconds, RetryDelaySeconds>>

\* Every response this attempt of the wait task has fetched carries nothing
\* later than the baseline.
AllPollsStale == \A i \in 1..Len(polled) : Stale(polled[i])

\* C20: the poll loop has no maximum number of iterations: as long as every
\* fetch is answered and no response carries a timestamp later than the
\* baseline, the wait task neither returns nor raises; after each such
\* response it sleeps and goes back to the fetch, however many it has made.
C20_PollLoopHasNoIterationLimit ==
    /\ []((step = "wait" /\ AllPollsStale /\ error = "none") =>
            /\ pc \in {"wait", "wait_sleep"}
            /\ result = NoResult
            /\ Len(slept) = (IF pc = "wait" THEN Len(polled) ELSE Len(polled) - 1))
    /\ [][(pc = "wait_sleep") => pc' \in {"wait_sleep", "wait"}]_vars
    /\ [][(pc = "wait_sleep" /\ pc' = "wait") =>
             (AllPollsStale' /\ Len(slept') = Len(polled') /\ error' = "none")]_vars

\* The wait task is back at its fetch after MaxPolls polls of one attempt,
\* none of which showed anything later than the baseline.
C20_Witness ==
    /\ step = "wait"
    /\ pc = "wait"
    /\ Len(polled) = MaxPolls
    /\ Len(Polls) = MaxPolls
    /\ AllPollsStale
    /\ Len(slept) = MaxPolls

\* The remote shows a run that ended after the baseline.
Published == NewerSucceeded(remote) \/ NewerFailed(remote)

\* C21: once the remote shows a succeeded_at or failed_at later than the
\* baseline (it never takes one back), the wait task that is fairly
\* scheduled and has polls left comes to an end: it returns a result or
\* raises the sync-failed error, unless the API failed its fetch.
C21_WaitTerminatesOncePublished ==
    (step = "wait" /\ pc \in {"wait", "wait_sleep"} /\ Published /\ Len(Polls) < MaxPolls)
        ~> (step = "wait" /\ (pc = "done" \/ error \in {"SyncFailed", "RemoteError"}))

\* The wait task has slept at least once, the remote published the end of
\* a run in the meantime, and the next poll ended the task.
C21_Witness ==
    /\ step = "wait"
    /\ Len(slept) >= 1
    /\ Len(polled) = Len(slept) + 1
    /\ Stale(polled[1])
    /\ ~Stale(LastPolled)
    /\ LastPolled = remote
    /\ \/ pc = "done" /\ result = SyncResult(remote, connector_id)
       \/ pc = "raised" /\ error = "SyncFailed"

\* C22: an entry point that takes poll_status_every_n_seconds sleeps
\* exactly that long between the polls of its wait task.
C22_SleepsTheIntervalOfTheCaller ==
    entry \in PollingEntries =>
        \A i \in 1..Len(slept) : slept[i] = poll_seconds

\* C23: a wait task or flow called with a poll interval of zero or less is
\* rejected: it sends no poll and does not sleep.
C23_NonPositiveIntervalIsRejected ==
    (entry \in {"wait", "flow"} /\ poll_seconds <= 0) =>
        /\ \A i \in 1..Len(sent) : sent[i].step # "wait"
        /\ slept = <<>>
        /\ pc \notin {"wait", "wait_sleep", "done"}

\* The response with its two timestamps exchanged.
Exchanged(response) ==
    [response EXCEPT !.succeeded_at = response.failed_at,
                     !.failed_at = response.succeeded_at]

\* The completion time is the same whichever way round the two timestamps
\* are given.
Commutes(response) ==
    CurrentCompletedAt(response).inst = CurrentCompletedAt(Exchanged(response)).inst

\* Null parses to an instant before that of every timestamp of the response.
NullIsLeast(response) ==
    \A t \in {response.succeeded_at, response.failed_at} :
        ~t.isnull => After(parse_timestamp(t), parse_timestamp(Null))

\* C24: for the two nullable timestamps of every response the wait task
\* has fetched, the completion time max(parse(a), parse(b)) does not depend
\* on their order, and parse(null) is strictly less than parse(t) for each
\* of them that is a real timestamp.
C24_MaxCommutesAndNullIsLeast ==
    \A i \in 1..Len(polled) : Commutes(polled[i]) /\ NullIsLeast(polled[i])

\* The schedule task of the first invocation has returned.
ScheduleCompleted == entry = "schedule" /\ pc = "done"

\* C25: nothing keeps two invocations on one connector apart: each request
\* of either can be sent whatever the other is doing, and so a schedule
\* task can have returned while the remote schedule_type is not the one it
\* asked for; that happens only when the patch of the other invocation
\* reached the API after the fetch of this one.
C25_NoMutualExclusion ==
    /\ (other.pc = "schedule") => ENABLED OtherScheduleFetch
    /\ (other.pc = "schedule_patch") => ENABLED OtherSchedulePatch
    /\ (pc = "schedule") => ENABLED ScheduleFetch
    /\ (pc = "schedule_patch") => ENABLED SchedulePatch
    /\ (ScheduleCompleted /\ remote.schedule_type # schedule_type) =>
          /\ other.pc = "done"
          /\ other.patched_at >= 1
          /\ remote.schedule_type = other.schedule_type

\* The second invocation fetched before the first did and patched after:
\* the first found the schedule type it asked for and returned, and the
\* remote now has the schedule type of the second.
C25_Witness ==
    /\ ScheduleCompleted
    /\ Len(sent) = 1 /\ sent[1].op = "get" /\ sent[1].ok
    /\ sent[1].seen.schedule_type = schedule_type
    /\ other.pc = "done"
    /\ other.fetched_at = 0
    /\ other.patched_at = 1
    /\ remote.schedule_type = other.schedule_type
    /\ remote.schedule_type # schedule_type

\* The schedule patch, or the unpause, of this invocation was applied.
Wrote(r) == r.op = "patch" /\ r.ok

\* C26: when an error ends the flow after its schedule task or its start
\* task has written to the connector, nothing is rolled back: every patch
\* the invocation has sent sets the requested schedule type or unpauses,
\* none restores a previous value, and the remote still has the schedule
\* type and the paused flag that were written.
C26_NothingIsRolledBack ==
    (entry = "flow" /\ pc \in {"raised", "failed"}) =>
        /\ \A i \in 1..Len(sent) :
              sent[i].op = "patch" =>
                  IsSchedulePatch(sent[i], schedule_type) \/ IsUnpause(sent[i])
        /\ (\E i \in 1..Len(sent) : Wrote(sent[i]) /\ IsSchedulePatch(sent[i], schedule_type))
              => remote.schedule_type = schedule_type
        /\ (\E i \in 1..Len(sent) : Wrote(sent[i]) /\ IsUnpause(sent[i]))
              => ~remote.paused

\* The flow has failed for good in its start task, after its schedule task
\* changed the schedule type of the connector and its start task unpaused
\* it: the remote has the new values, not those of the first fetch.
C26_Witness ==
    /\ entry = "flow"
    /\ pc = "failed"
    /\ step = "trigger"
    /\ \E i \in 1..Len(sent) : Wrote(sent[i]) /\ IsSchedulePatch(sent[i], schedule_type)
    /\ \E i \in 1..Len(sent) : Wrote(sent[i]) /\ IsUnpause(sent[i])
    /\ sent[1].op = "get" /\ sent[1].ok
    /\ sent[1].seen.schedule_type # schedule_type
    /\ sent[1].seen.paused
    /\ remote.schedule_type = schedule_type
    /\ ~remote.paused

\* Both timestamps of the response are later than the baseline.
BothNewer(response) == NewerFailed(response) /\ NewerSucceeded(response)

\* C27: a poll response in which failed_at and succeeded_at are both later
\* than the baseline is the last of its attempt and makes the wait task
\* raise the sync-failed error, also when succeeded_at is the later of the
\* two: the failure is checked before the completion.
C27_FailureIsCheckedFirst ==
    \A i \in 1..Len(polled) :
        BothNewer(polled[i]) =>
            /\ i = Len(polled)
            /\ WaitRaisedSyncFailed
            /\ result = NoResult
            /\ url = LogsUrl(polled[i])

\* The wait task raised the sync-failed error on a response whose
\* succeeded_at is later than its failed_at, both later than the baseline.
C27_Witness ==
    /\ WaitRaisedSyncFailed
    /\ polled # <<>>
    /\ BothNewer(LastPolled)
    /\ Inst(LastPolled.succeeded_at) > Inst(LastPolled.failed_at)

\* The API acknowledged the force request of this invocation.
IsForced(r) == r.op = "force" /\ r.ok

\* C28: the wait task of the flow returns only after the run that the
\* flow itself forced has ended: the succeeded_at it returns is later than
\* the time at which the force request reached the API, never the end of a
\* run that was over by then.
C28_ReturnsOnlyForItsOwnRun ==
    (entry = "flow" /\ WaitReturned) =>
        \E i \in 1..Len(sent) :
            /\ IsForced(sent[i])
            /\ Inst(result.succeeded_at) > sent[i].at

\* The step is a poll of the wait task that the API answered.
AnsweredPoll ==
    /\ pc = "wait"
    /\ Len(sent') = Len(sent) + 1
    /\ sent'[Len(sent')].ok

\* C29: the wait task only observes.  Every request it sends is a fetch
\* without a body, a poll leaves the connector as it is, and what the task
\* does after a poll (raise, return, sleep) follows from the response of
\* that very poll, which is the connector as it is at that moment.
C29_PollOnlyObserves ==
    /\ [](\A i \in 1..Len(sent) :
             sent[i].step = "wait" => sent[i].op = "get" /\ sent[i].body = NoBody)
    /\ [][AnsweredPoll =>
             /\ remote' = remote
             /\ details' = remote
             /\ polled' = Append(polled, remote)
             /\ (pc' = "raised" /\ error' = "SyncFailed") <=> NewerFailed(remote)
             /\ (pc' = "done" /\ result' = SyncResult(remote, connector_id))
                    <=> (~NewerFailed(remote) /\ NewerSucceeded(remote))
             /\ (pc' = "wait_sleep") <=> Stale(remote)]_vars

\* The second poll of an attempt showed a failure later than the baseline
\* that the first had not shown, and the wait task raised on it; all the
\* wait task sent were fetches.
C29_Witness ==
    /\ WaitRaisedSyncFailed
    /\ Len(polled) = 2
    /\ Stale(polled[1])
    /\ NewerFailed(polled[2])
    /\ polled[2] = remote
    /\ Len(Polls) = 2
    /\ \A i \in 1..Len(Polls) : Polls[i].op = "get" /\ Polls[i].ok

\* C30: in an attempt of the wait task the first poll is made without a
\* sleep before it, between two successive polls there is exactly one sleep
\* of poll_status_every_n_seconds, and no sleep follows the poll on which
\* the task returns or raises: before its next poll the task has slept as
\* often as it has polled, otherwise once less.
C30_OneSleepBetweenPolls ==
    /\ [](step = "wait" =>
            /\ \A i \in 1..Len(slept) : slept[i] = poll_seconds
            /\ Len(slept) = (IF pc = "wait" THEN Len(Polls) ELSE Len(Polls) - 1))
    /\ [][(pc = "wait" /\ sent' # sent /\ Len(Polls) = 0) => slept = <<>>]_vars
    /\ [][(pc = "wait_sleep" /\ pc' # pc) =>
             /\ pc' = "wait"
             /\ slept' = Append(slept, poll_seconds)
             /\ sent' = sent]_vars
    /\ [][(pc = "wait" /\ pc' \in {"done", "raised"}) => slept' = slept]_vars

\* The wait task of the flow returned on its last poll, MaxPolls polls and
\* one sleep of the flow's interval between each two of them.
C30_Witness ==
    /\ entry = "flow"
    /\ WaitReturned
    /\ Len(Polls) = MaxPolls
    /\ Len(polled) = MaxPolls
    /\ slept = [i \in 1..(MaxPolls - 1) |-> FlowPollSeconds]

\* C31: with no other writer, once set_fivetran_connector_schedule has
\* returned the remote schedule_type is the requested one, and a second
\* run with the same value fetches, finds nothing to change and sends no
\* patch: it leaves the connector as it is.
C31_ScheduleIsIdempotent ==
    /\ [](ScheduleCompleted =>
            /\ remote.schedule_type = schedule_type
            /\ other.pc \in {"idle", "schedule", "done"})
    /\ [][(ScheduleCompleted /\ other' # other) =>
             /\ remote' = remote
             /\ other'.pc \in {"schedule", "done"}]_vars

\* The first run changed the schedule type of the connector; the second
\* run, made after it had returned, fetched and returned without a patch.
C31_Witness ==
    /\ ScheduleCompleted
    /\ result.value = "patched"
    /\ sent[1].op = "get" /\ sent[1].ok
    /\ sent[1].seen.schedule_type # schedule_type
    /\ other.pc = "done"
    /\ other.schedule_type = schedule_type
    /\ other.fetched_at = Len(sent)
    /\ other.patched_at = 0
    /\ remote.schedule_type = schedule_type

\* The writes among the requests of the invocation, in order.
Writes == SelectSeq(sent, IsWrite)

\* C32: the only writes an invocation sends are the patch of schedule_type
\* to the requested value (by the schedule task), the patch of paused to
\* false and the force request without a body (by the start task); a
\* request of the invocation changes nothing of the connector but its
\* schedule_type, to the requested value, or its paused flag, to false.
C32_OnlyThreeKindsOfWrite ==
    /\ [](\A i \in 1..Len(sent) :
             IsWrite(sent[i]) =>
                 \/ sent[i].step = "schedule" /\ IsSchedulePatch(sent[i], schedule_type)
                 \/ sent[i].step = "trigger" /\ IsUnpause(sent[i])
                 \/ sent[i].step = "trigger" /\ sent[i].op = "force" /\ sent[i].body = NoBody)
    /\ [][(sent' # sent) =>
             \/ remote' = remote
             \/ remote' = [remote EXCEPT !.schedule_type = schedule_type]
             \/ remote' = [remote EXCEPT !.paused = FALSE]]_vars

\* The flow has sent each of the three writes once, all acknowledged, to a
\* connector that was paused and on another schedule type, and is polling.
C32_Witness ==
    /\ entry = "flow"
    /\ pc = "wait"
    /\ Len(Writes) = 3
    /\ IsSchedulePatch(Writes[1], schedule_type) /\ Writes[1].ok
    /\ IsUnpause(Writes[2]) /\ Writes[2].ok
    /\ Writes[3].op = "force" /\ Writes[3].ok
    /\ remote.schedule_type = schedule_type
    /\ ~remote.paused

\* The force requests of the invocation that the API acknowledged.
Forced == {i \in 1..Len(sent) : IsForced(sent[i])}

\* C33: in one invocation of the flow the API acknowledges at most one
\* force request, however often the start task is retried, and once the
\* wait task has sent a poll no force request follows, whether the wait
\* task is retried or not.
C33_AtMostOneForce ==
    entry = "flow" =>
        /\ Cardinality(Forced) <= 1
        /\ \A i \in Forced : \A j \in (i + 1)..Len(sent) : sent[j].step = "wait"
        /\ \A i \in 1..Len(sent) :
              sent[i].op = "force" => \A j \in 1..(i - 1) : sent[j].step # "wait"

\* The start task of the flow was retried after a force request the API
\* failed, its next force request was acknowledged, and the wait task has
\* been retried after a failed poll and has polled again: one acknowledged
\* force request among two sent.
C33_Witness ==
    /\ entry = "flow"
    /\ step = "wait"
    /\ attempt >= 1
    /\ Len(Polls) >= 1
    /\ Cardinality(Forced) = 1
    /\ Cardinality({i \in 1..Len(sent) : sent[i].op = "force"}) = 2
    /\ \E i \in 1..Len(sent) : sent[i].step = "wait" /\ ~sent[i].ok

\* The instant of the value the start task returned.
TriggerBaseline == Inst(last_sync)

\* C34: a retry of the wait task of the flow after a remote error polls
\* against the baseline of the first attempt, the value the start task
\* returned; whatever the attempt, the last response is judged against
\* that baseline: a failed_at later than it raises the sync-failed error,
\* otherwise a succeeded_at later than it makes the task return it, and
\* otherwise the task goes on polling.
C34_RetryKeepsTheBaseline ==
    /\ []((entry = "flow" /\ step = "wait") =>
            /\ previous_completed_at = last_sync
            /\ polled # <<>> =>
                 /\ (Inst(LastPolled.failed_at) > TriggerBaseline) <=> (error = "SyncFailed")
                 /\ (Inst(LastPolled.failed_at) <= TriggerBaseline
                        /\ Inst(LastPolled.succeeded_at) > TriggerBaseline)
                      <=> (pc = "done" /\ result = SyncResult(LastPolled, connector_id))
                 /\ (Inst(LastPolled.failed_at) <= TriggerBaseline
                        /\ Inst(LastPolled.succeeded_at) <= TriggerBaseline)
                      => (pc \in {"wait", "wait_sleep"} \/ error = "RemoteError"))
    /\ [][(RemoteErrorIn({"wait"}) /\ attempt' = attempt + 1) =>
             /\ pc' = "wait"
             /\ previous_completed_at' = previous_completed_at
             /\ last_sync' = last_sync
             /\ remote' = remote
             /\ sent' = sent]_vars

\* The first poll of the flow's wait task failed; the sync ended well in
\* the meantime, and the first poll of the retry returned its succeeded_at,
\* judged against the value the start task had returned.
C34_Witness ==
    /\ entry = "flow"
    /\ WaitReturned
    /\ attempt = 1
    /\ Len(polled) = 1
    /\ \E i \in 1..Len(sent) :
          sent[i].step = "wait" /\ sent[i].attempt = 0 /\ ~sent[i].ok
    /\ \A i \in 1..Len(sent) :
          (sent[i].step = "wait" /\ sent[i].attempt = 0) => ~sent[i].ok
    /\ previous_completed_at = last_sync
    /\ Inst(remote.succeeded_at) > TriggerBaseline
    /\ result = SyncResult(remote, connector_id)

====
